---- MODULE Spec2Model ----
(***************************************************************************)
(* The Protocol Bridge of webext-bridge/src/main.rs: a loop that reads     *)
(* length-prefixed JSON frames from stdin, decodes each into a Request,    *)
(* dispatches it against the session table `toodles`, and writes a         *)
(* length-prefixed Response to stdout.                                     *)
(*                                                                         *)
(* The byte stream is modelled byte by byte.  A byte of a length prefix is *)
(* a number; the JSON text of a body is abstracted to one stream element   *)
(* per syntactic unit ("{", the "type":... member, the group of the other  *)
(* members, "}", and a character that starts no JSON value).  Every        *)
(* element has a byte value, so that a reader that has lost the frame      *)
(* boundary still computes a length from whatever four elements it finds.  *)
(*                                                                         *)
(* The Boundary Adapter of cargo/src/lib.rs is modelled beside it: the     *)
(* Box<Toodle> sessions, the Arc<Store> and Arc<LoginManager> /            *)
(* Arc<ListManager> they share with their strong counts, and the handles   *)
(* given out through the C surface and the JNI surface.  Spec is the       *)
(* bridge, SpecOpenFails the bridge over stores that may fail to open,     *)
(* AdapterSpec the adapter under its callers.                              *)
(***************************************************************************)
EXTENDS Integers, Sequences, FiniteSets, TLC

\* ------------------------------------------------------------------ bounds
MaxNew == 2         \* NewToodle frames the peer sends
MaxOther == 2       \* frames of any other shape the peer sends
MaxWriteFail == 1   \* response writes that fail
MaxEofSpin == 2     \* loop iterations explored after end-of-file
MaxStored == 1       \* labels an item holds in the persisted data at the start
MaxSessions == 2     \* sessions created through the boundary adapter
MaxHandles == 2      \* sub-manager handles given out by the boundary adapter

\* ------------------------------------------------------- request payloads
Uris == {"a.db"}
StoredUuids == {"i1"}
ReqUuids == {"i1", "i9"}
NoLabel == [name |-> "", color |-> ""]
LabelSet == {[name |-> "home", color |-> "red"], [name |-> "home", color |-> "blue"]}
ReqIds == 1..MaxNew

\* The ten variants of enum Request, by their `type` tag.
RequestTags == {"NewToodle", "DestroyToodle", "GetLabels", "GetTodos", "CreateTodo",
                "DeleteTodo", "MarkCompleted", "CreateLabel", "AddLabel", "SetDue"}

\* The fields a variant cannot be decoded without (an Option field may be absent).
RequiredFields(tag) ==
  CASE tag = "NewToodle" -> {"uri"}
    [] tag = "DestroyToodle" -> {"toodle_id"}
    [] tag = "GetLabels" -> {}
    [] tag = "GetTodos" -> {}
    [] tag = "CreateTodo" -> {"name", "due", "labels"}
    [] tag = "DeleteTodo" -> {"id"}
    [] tag = "MarkCompleted" -> {"id"}
    [] tag = "CreateLabel" -> {"toodle_id", "name", "color"}
    [] tag = "AddLabel" -> {"toodle_id", "item_uuid", "label"}
    [] tag = "SetDue" -> {"id", "due"}
    [] OTHER -> {}

\* The members of a JSON object other than `type`: which are present, and the
\* values of those the dispatch reads.
NoFields ==
  [present |-> {}, dup |-> FALSE, toodle_id |-> 0, uri |-> "", item_uuid |-> "",
   label |-> NoLabel, name |-> "", color |-> ""]

MergeFields(f, g) ==
  [present |-> f.present \cup g.present,
   dup |-> f.dup \/ g.dup \/ (f.present \cap g.present # {}),
   toodle_id |-> IF "toodle_id" \in g.present THEN g.toodle_id ELSE f.toodle_id,
   uri |-> IF "uri" \in g.present THEN g.uri ELSE f.uri,
   item_uuid |-> IF "item_uuid" \in g.present THEN g.item_uuid ELSE f.item_uuid,
   label |-> IF "label" \in g.present THEN g.label ELSE f.label,
   name |-> IF "name" \in g.present THEN g.name ELSE f.name,
   color |-> IF "color" \in g.present THEN g.color ELSE f.color]

\* A decoded Request; NoRequest stands for "no request was decoded".
Request(tag, f) ==
  [type |-> tag, toodle_id |-> f.toodle_id, uri |-> f.uri, item_uuid |-> f.item_uuid,
   label |-> f.label, name |-> f.name, color |-> f.color]
NoRequest == Request("", NoFields)

\* ------------------------------------------------------------ stream bytes
NumByte(n) == [k |-> "num", n |-> n, tag |-> "", f |-> NoFields]
OpenByte == [k |-> "{", n |-> 123, tag |-> "", f |-> NoFields]
CloseByte == [k |-> "}", n |-> 125, tag |-> "", f |-> NoFields]
JunkByte == [k |-> "junk", n |-> 64, tag |-> "", f |-> NoFields]
TagByte(t) == [k |-> "tag", n |-> 34, tag |-> t, f |-> NoFields]
FieldsByte(f) == [k |-> "fields", n |-> 34, tag |-> "", f |-> f]

\* read_u32::<NativeEndian> over four stream elements (little-endian host).
U32(s) == s[1].n + 256 * s[2].n + 65536 * s[3].n + 16777216 * s[4].n
\* The peer's encoding of a length prefix, in the same byte order.
LenPrefix(n) ==
  <<NumByte(n % 256), NumByte((n \div 256) % 256),
    NumByte((n \div 65536) % 256), NumByte((n \div 16777216) % 256)>>

\* ---------------------------------------------------------------- decoding
ReadResult(st, used, req) == [st |-> st, used |-> used, req |-> req]

(* serde_json::from_reader over input.take(length), one element at a time.   *)
(* s is what the stream holds after the prefix, limit the declared length,   *)
(* i the next element to read.  The reader stops at the first error and      *)
(* leaves the rest of the stream unread; it needs element i <= limit and     *)
(* waits for it ("block") while the stream is open and has not supplied it.  *)
(* phase "start": before the value; "map": inside the object, collecting     *)
(* members until the `type` member names a variant; "end": after the value,  *)
(* where only the end of the Take is acceptable.                             *)
RECURSIVE from_reader(_, _, _, _, _, _, _)
from_reader(s, limit, closed, i, phase, tag, f) ==
  IF i > limit \/ (i > Len(s) /\ closed)
    THEN IF phase = "end"
           THEN ReadResult("ok", i - 1, Request(tag, f))
           ELSE ReadResult("err", i - 1, NoRequest)
  ELSE IF i > Len(s)
    THEN ReadResult("block", i - 1, NoRequest)
  ELSE LET b == s[i] IN
    CASE phase = "start" ->
           IF b.k = "{"
             THEN from_reader(s, limit, closed, i + 1, "map", tag, f)
             ELSE ReadResult("err", i, NoRequest)
      [] phase = "map" /\ b.k = "tag" ->
           IF tag # "" \/ b.tag \notin RequestTags
             THEN ReadResult("err", i, NoRequest)
             ELSE from_reader(s, limit, closed, i + 1, "map", b.tag, f)
      [] phase = "map" /\ b.k = "fields" ->
           from_reader(s, limit, closed, i + 1, "map", tag, MergeFields(f, b.f))
      [] phase = "map" /\ b.k = "}" ->
           IF tag = "" \/ f.dup \/ ~(RequiredFields(tag) \subseteq f.present)
             THEN ReadResult("err", i, NoRequest)
             ELSE from_reader(s, limit, closed, i + 1, "end", tag, f)
      [] OTHER -> ReadResult("err", i, NoRequest)

(* Request::read_from: the length prefix, then the body.  The result of      *)
(* read_u32 is not inspected: when the stream ends inside the prefix the     *)
(* bytes read so far are gone and from_reader finds the stream at its end.   *)
(* Every failure is Error::BadRequest.                                       *)
read_from(in, closed) ==
  IF Len(in) < 4
    THEN IF closed THEN ReadResult("err", Len(in), NoRequest)
                   ELSE ReadResult("block", 0, NoRequest)
    ELSE LET r == from_reader(SubSeq(in, 5, Len(in)), U32(in), closed, 1, "start", "", NoFields)
         IN  ReadResult(r.st, r.used + 4, r.req)

\* ---------------------------------------------------------------- responses
Response(type, id, destroyed, label, err) ==
  [type |-> type, toodle_id |-> id, destroyed |-> destroyed, label |-> label, err |-> err]
RespNewToodle(id) == Response("NewToodle", id, FALSE, NoLabel, "")
RespDestroyToodle(d) == Response("DestroyToodle", 0, d, NoLabel, "")
RespCreateLabel(l) == Response("CreateLabel", 0, FALSE, l, "")
RespAddLabel == Response("AddLabel", 0, FALSE, NoLabel, "")
RespErr(e) == Response("Err", 0, FALSE, NoLabel, e)
NoResponse == Response("", 0, FALSE, NoLabel, "")

\* ----------------------------------------------------------------- encoding
\* A JSON object for a Label: the names of its members and their values.
LabelJson(keys, name, color, label) ==
  [keys |-> keys, name |-> name, color |-> color, label |-> label]
NoLabelJson == LabelJson({}, "", "", "")

(* The Serialize impl that writes the struct "Label": two members, "name"    *)
(* and "label".  The second member carries the label's other field.          *)
SerializeLabel(l) == LabelJson({"name", "label"}, l.name, "", l.color)

\* A Label read by the data model's schema, { name, color }.
DeserializeLabel(j) ==
  IF {"name", "color"} \subseteq j.keys
    THEN [some |-> TRUE, label |-> [name |-> j.name, color |-> j.color]]
    ELSE [some |-> FALSE, label |-> NoLabel]

\* The members of a response object other than `type`.
Members(present, id, destroyed, label, err) ==
  [present |-> present, toodle_id |-> id, destroyed |-> destroyed, label |-> label,
   err |-> err]
MembersByte(m) == [k |-> "fields", n |-> 34, tag |-> "", f |-> m]

(* serde_json::to_vec(self) of a Response, tagged by `type`.  enum Error has *)
(* no Serialize impl in the source; its kind is written as one member.       *)
to_vec(r) ==
  CASE r.type = "NewToodle" ->
         <<OpenByte, TagByte(r.type),
           MembersByte(Members({"toodle_id"}, r.toodle_id, FALSE, NoLabelJson, "")),
           CloseByte>>
    [] r.type = "DestroyToodle" ->
         <<OpenByte, TagByte(r.type),
           MembersByte(Members({"destroyed"}, 0, r.destroyed, NoLabelJson, "")),
           CloseByte>>
    [] r.type = "CreateLabel" ->
         <<OpenByte, TagByte(r.type),
           MembersByte(Members({"label"}, 0, FALSE, SerializeLabel(r.label), "")),
           CloseByte>>
    [] r.type = "Err" ->
         <<OpenByte, TagByte(r.type),
           MembersByte(Members({"err"}, 0, FALSE, NoLabelJson, r.err)),
           CloseByte>>
    [] OTHER -> <<OpenByte, TagByte(r.type), CloseByte>>

(* The frame write_to writes: message.len() as u32 (LenPrefix keeps the low   *)
(* four bytes), then the message.                                            *)
ResponseFrame(r) == LET message == to_vec(r) IN LenPrefix(Len(message)) \o message

(* A response frame read back by the framing rules and the data model: the  *)
(* prefix counts the body, the body is an object with `type` and the members *)
(* of that variant.                                                          *)
DecodeResponse(frame) ==
  LET failed == [ok |-> FALSE, response |-> NoResponse]
      body == SubSeq(frame, 5, Len(frame))
      n == Len(body)
  IN
  IF Len(frame) < 4 + 3 \/ U32(frame) # n \/ n > 4 THEN failed
  ELSE IF body[1].k # "{" \/ body[2].k # "tag" \/ body[n].k # "}" THEN failed
  ELSE IF n = 3
    THEN IF body[2].tag = "AddLabel" THEN [ok |-> TRUE, response |-> RespAddLabel]
                                     ELSE failed
  ELSE IF body[3].k # "fields" THEN failed
  ELSE LET m == body[3].f
           t == body[2].tag
       IN  CASE t = "NewToodle" /\ "toodle_id" \in m.present ->
                  [ok |-> TRUE, response |-> RespNewToodle(m.toodle_id)]
             [] t = "DestroyToodle" /\ "destroyed" \in m.present ->
                  [ok |-> TRUE, response |-> RespDestroyToodle(m.destroyed)]
             [] t = "CreateLabel" /\ "label" \in m.present /\ DeserializeLabel(m.label).some ->
                  [ok |-> TRUE, response |-> RespCreateLabel(DeserializeLabel(m.label).label)]
             [] t = "Err" /\ "err" \in m.present ->
                  [ok |-> TRUE, response |-> RespErr(m.err)]
             [] OTHER -> failed

\* -------------------------------------------------------------------- store
(* The store crate is outside this program; what the bridge relies on: a     *)
(* store is the data persisted at a uri, items keyed by uuid each with a     *)
(* sequence of labels, and the labels created so far.                        *)
Contains(labels, l) == \E i \in 1..Len(labels) : labels[i] = l

create_label(st, name, color) ==
  LET l == [name |-> name, color |-> color] IN
  IF \E x \in st.labels : x.name = name
    THEN [some |-> FALSE, label |-> NoLabel, store |-> st]
    ELSE [some |-> TRUE, label |-> l, store |-> [st EXCEPT !.labels = @ \cup {l}]]

fetch_item(st, uuid) ==
  IF uuid \in DOMAIN st.items
    THEN [some |-> TRUE, uuid |-> uuid, labels |-> st.items[uuid]]
    ELSE [some |-> FALSE, uuid |-> uuid, labels |-> <<>>]

update_item(st, item) == [st EXCEPT !.items[item.uuid] = item.labels]

\* ----------------------------------------------------------------- dispatch
\* Toodle::new(uri): the session's store is the store at uri.
ToodleNew(uri) == [uri |-> uri]

Outcome(resp, t, n, d) ==
  [matched |-> TRUE, response |-> resp, toodles |-> t, next_toodle_id |-> n, db |-> d]

Insert(t, id, v) == [i \in DOMAIN t \cup {id} |-> IF i = id THEN v ELSE t[i]]
Remove(t, id) == [i \in DOMAIN t \ {id} |-> t[i]]

\* NewToodleArm with the id taken from the first free slot of the table.
NewToodleArmReuse(req, t, n, d) ==
  LET id == CHOOSE i \in 1..n : i \notin DOMAIN t /\ \A j \in 1..(i - 1) : j \in DOMAIN t
  IN  Outcome(RespNewToodle(id), Insert(t, id, ToodleNew(req.uri)), n + 1, d)

\* NewToodleArm without `next_toodle_id += 1`.
NewToodleArmNoIncrement(req, t, n, d) ==
  Outcome(RespNewToodle(n), Insert(t, n, ToodleNew(req.uri)), n, d)

NewToodleArm(req, t, n, d) ==
  Outcome(RespNewToodle(n), Insert(t, n, ToodleNew(req.uri)), n + 1, d)

\* DestroyToodleArm reporting success whatever the table held.
DestroyToodleArmAlwaysTrue(req, t, n, d) ==
  Outcome(RespDestroyToodle(TRUE), Remove(t, req.toodle_id), n, d)

\* DestroyToodleArm looking the session up without removing it.
DestroyToodleArmKeep(req, t, n, d) ==
  Outcome(RespDestroyToodle(req.toodle_id \in DOMAIN t), t, n, d)

\* DestroyToodleArm emptying the table.
DestroyToodleArmClear(req, t, n, d) ==
  Outcome(RespDestroyToodle(req.toodle_id \in DOMAIN t), <<>>, n, d)

DestroyToodleArm(req, t, n, d) ==
  Outcome(RespDestroyToodle(req.toodle_id \in DOMAIN t), Remove(t, req.toodle_id), n, d)

\* CreateLabelArm answering a lookup miss with the store's error.
CreateLabelArmWrongErr(req, t, n, d) ==
  IF req.toodle_id \in DOMAIN t
    THEN LET u == t[req.toodle_id].uri
             c == create_label(d[u], req.name, req.color)
         IN  IF c.some
               THEN Outcome(RespCreateLabel(c.label), t, n, [d EXCEPT ![u] = c.store])
               ELSE Outcome(RespErr("BadLabel"), t, n, d)
    ELSE Outcome(RespErr("BadLabel"), t, n, d)

CreateLabelArm(req, t, n, d) ==
  IF req.toodle_id \in DOMAIN t
    THEN LET u == t[req.toodle_id].uri
             c == create_label(d[u], req.name, req.color)
         IN  IF c.some
               THEN Outcome(RespCreateLabel(c.label), t, n, [d EXCEPT ![u] = c.store])
               ELSE Outcome(RespErr("BadLabel"), t, n, d)
    ELSE Outcome(RespErr("BadToodle"), t, n, d)

\* AddLabelArm without the `contains` test.
AddLabelArmNoCheck(req, t, n, d) ==
  IF req.toodle_id \in DOMAIN t
    THEN LET u == t[req.toodle_id].uri
             item == fetch_item(d[u], req.item_uuid)
         IN  IF item.some
               THEN Outcome(RespAddLabel, t, n,
                      [d EXCEPT ![u] = update_item(d[u],
                         [item EXCEPT !.labels = Append(@, req.label)])])
               ELSE Outcome(RespErr("BadItem"), t, n, d)
    ELSE Outcome(RespErr("BadToodle"), t, n, d)

\* AddLabelArm storing the label under the uuid before it reports a missing item.
AddLabelArmUpsert(req, t, n, d) ==
  IF req.toodle_id \in DOMAIN t
    THEN LET u == t[req.toodle_id].uri
             item == fetch_item(d[u], req.item_uuid)
         IN  IF item.some
               THEN IF ~Contains(item.labels, req.label)
                      THEN Outcome(RespAddLabel, t, n,
                             [d EXCEPT ![u] = update_item(d[u],
                                [item EXCEPT !.labels = Append(@, req.label)])])
                      ELSE Outcome(RespAddLabel, t, n, d)
               ELSE Outcome(RespErr("BadItem"), t, n,
                      [d EXCEPT ![u].items =
                         [x \in DOMAIN @ \cup {req.item_uuid} |-> 
                            IF x = req.item_uuid THEN <<req.label>> ELSE @[x]]])
    ELSE Outcome(RespErr("BadToodle"), t, n, d)

AddLabelArm(req, t, n, d) ==
  IF req.toodle_id \in DOMAIN t
    THEN LET u == t[req.toodle_id].uri
             item == fetch_item(d[u], req.item_uuid)
         IN  IF item.some
               THEN IF ~Contains(item.labels, req.label)
                      THEN Outcome(RespAddLabel, t, n,
                             [d EXCEPT ![u] = update_item(d[u],
                                [item EXCEPT !.labels = Append(@, req.label)])])
                      ELSE Outcome(RespAddLabel, t, n, d)
               ELSE Outcome(RespErr("BadItem"), t, n, d)
    ELSE Outcome(RespErr("BadToodle"), t, n, d)

\* The variants `match request` has an arm for.
MatchedTags == {"NewToodle", "DestroyToodle", "CreateLabel", "AddLabel"}

(* `match request`: the four arms.  A request of any other variant reaches   *)
(* no arm and no Response value is made for it.                              *)
Dispatch(req, t, n, d) ==
  CASE req.type = "NewToodle" -> NewToodleArm(req, t, n, d)
    [] req.type = "DestroyToodle" -> DestroyToodleArm(req, t, n, d)
    [] req.type = "CreateLabel" -> CreateLabelArm(req, t, n, d)
    [] req.type = "AddLabel" -> AddLabelArm(req, t, n, d)
    [] OTHER -> [matched |-> FALSE, response |-> NoResponse, toodles |-> t,
                 next_toodle_id |-> n, db |-> d]

\* ------------------------------------------------------------------- frames
WithFields(present, id, uri, uuid, label) ==
  [NoFields EXCEPT !.present = present, !.toodle_id = id, !.uri = uri,
                   !.item_uuid = uuid, !.label = label,
                   !.name = IF "name" \in present THEN label.name ELSE "",
                   !.color = IF "color" \in present THEN label.color ELSE ""]

\* The JSON text of a request: {"type": tag, ...fields}.
Body(tag, f) ==
  IF f.present = {} THEN <<OpenByte, TagByte(tag), CloseByte>>
                    ELSE <<OpenByte, TagByte(tag), FieldsByte(f), CloseByte>>

\* A frame whose prefix declares n bytes and whose body is b.
Frame(n, b) == LenPrefix(n) \o b

NewToodleBodies ==
  {Body("NewToodle", WithFields({"uri"}, 0, u, "", NoLabel)) : u \in Uris}

OtherBodies ==
  {Body("DestroyToodle", WithFields({"toodle_id"}, id, "", "", NoLabel)) : id \in ReqIds}
  \cup {Body("CreateLabel", WithFields({"toodle_id", "name", "color"}, x[1], "", "", x[2])) :
          x \in ReqIds \X LabelSet}
  \cup {Body("AddLabel", WithFields({"toodle_id", "item_uuid", "label"}, x[1], "", x[2], x[3])) :
          x \in ReqIds \X ReqUuids \X LabelSet}
  \cup {Body(tag, WithFields(RequiredFields(tag), 0, "", "", NoLabel)) :
          tag \in RequestTags \ MatchedTags}

\* Complete frames that do not decode: no JSON value, an unknown `type`, a
\* variant without its fields, no `type` at all, text after the value.
MalformedBodies ==
  {<<JunkByte, JunkByte>>,
   <<OpenByte, TagByte("Bogus"), CloseByte>>,
   <<OpenByte, TagByte("DestroyToodle"), CloseByte>>,
   <<OpenByte, FieldsByte(WithFields({"toodle_id"}, 1, "", "", NoLabel)), CloseByte>>,
   <<OpenByte, TagByte("GetLabels"), CloseByte, JunkByte>>}

\* Frames cut short: the prefix declares more bytes than the peer supplies.
TruncatedFrames ==
  {[declared |-> 4, body |-> <<OpenByte, TagByte("NewToodle")>>],
   [declared |-> 4, body |-> <<OpenByte, JunkByte, JunkByte>>]}

\* -------------------------------------------------------------------- state
VARIABLES
  toodles,          \* the session table: toodle_id -> Toodle
  next_toodle_id,   \* the id the next NewToodle gets
  db,               \* the data persisted at each uri
  input,            \* bytes the peer has written and the bridge has not read
  closed,           \* the peer has closed the stream
  output,           \* the response frames written
  pc,               \* "loop", or "nomatch" once a request reached no arm
  pos,              \* bytes of the input read so far
  sent,             \* the frames the peer wrote: kind, first byte, lengths
  issued,           \* the toodle_ids of the NewToodle responses, in order
  removed,          \* the ids DestroyToodle removed and no NewToodle returned since
  reads,            \* calls of read_from that returned
  handed,           \* responses handed to write_to
  last,             \* the latest loop iteration
  writeFails,       \* writes that failed
  eofSpins,         \* iterations begun with the stream at its end
  heap,             \* what the boundary adapter has allocated
  call,             \* the latest call through the boundary adapter
  apc               \* "run", or "crashed" once a call ended the host process

bridgeVars == <<toodles, next_toodle_id, db, input, closed, output, pc, pos, sent, issued,
                removed, reads, handed, last, writeFails, eofSpins>>
adapterVars == <<heap, call, apc>>
vars == <<bridgeVars, adapterVars>>

\* The sequences over S of at most n elements, none twice.
RECURSIVE NoDupSeqs(_, _)
NoDupSeqs(S, n) ==
  IF n = 0 THEN {<<>>}
  ELSE LET shorter == NoDupSeqs(S, n - 1) IN
       shorter \cup {Append(p[1], p[2]) :
                       p \in {c \in shorter \X S :
                                Len(c[1]) = n - 1 /\ \A i \in 1..Len(c[1]) : c[1][i] # c[2]}}

StoreAt(ls) == [items |-> [u \in StoredUuids |-> ls], labels |-> {}]

NoIteration ==
  [start |-> 0, end |-> 0, st |-> "none", req |-> NoRequest, response |-> NoResponse,
   matched |-> FALSE, toodles |-> <<>>, next |-> 0, db |-> <<>>, removed |-> {},
   eof |-> FALSE, wrote |-> FALSE]

(* The allocations made through the boundary adapter, each kind addressed by *)
(* its index: Box<Toodle>, Arc<Store>, Arc<LoginManager> / Arc<ListManager>  *)
(* and the Box<Arc<..>> handles given out.                                   *)
EmptyHeap == [sessions |-> <<>>, stores |-> <<>>, managers |-> <<>>, handles |-> <<>>]
Call(op, token, outcome, result) ==
  [op |-> op, token |-> token, outcome |-> outcome, result |-> result]
NoCall == Call("", 0, "", 0)

Init ==
  /\ heap = EmptyHeap
  /\ call = NoCall
  /\ apc = "run"
  /\ toodles = <<>>
  /\ next_toodle_id = 1
  /\ db \in [Uris -> {StoreAt(ls) : ls \in NoDupSeqs(LabelSet, MaxStored)}]
  /\ input = <<>>
  /\ closed = FALSE
  /\ output = <<>>
  /\ pc = "loop"
  /\ pos = 0
  /\ sent = <<>>
  /\ issued = <<>>
  /\ removed = {}
  /\ reads = 0
  /\ handed = 0
  /\ last = NoIteration
  /\ writeFails = 0
  /\ eofSpins = 0

\* --------------------------------------------------------------------- peer
(* The bridge's read blocks: the peer's next write is taken when the bridge  *)
(* waits for input.  What read_from returns depends only on the bytes it has *)
(* read, so bytes written earlier than that change no outcome.               *)
Waiting == pc = "loop" /\ ~closed /\ read_from(input, closed).st = "block"

Count(kinds) == Cardinality({i \in 1..Len(sent) : sent[i].kind \in kinds})

PeerWrite(kind, declared, body) ==
  /\ input' = input \o Frame(declared, body)
  /\ sent' = Append(sent, [kind |-> kind, start |-> pos + Len(input),
                           declared |-> declared, supplied |-> Len(body)])
  /\ UNCHANGED <<toodles, next_toodle_id, db, closed, output, pc, pos, issued, removed,
                 reads, handed, last, writeFails, eofSpins>>
  /\ UNCHANGED adapterVars

PeerSendNewToodle ==
  /\ Waiting
  /\ Count({"new"}) < MaxNew
  /\ \E b \in NewToodleBodies : PeerWrite("new", Len(b), b)

PeerSendRequest ==
  /\ Waiting
  /\ Count({"req", "bad", "trunc"}) < MaxOther
  /\ \E b \in OtherBodies : PeerWrite("req", Len(b), b)

PeerSendMalformed ==
  /\ Waiting
  /\ Count({"req", "bad", "trunc"}) < MaxOther
  /\ \E b \in MalformedBodies : PeerWrite("bad", Len(b), b)

PeerSendTruncated ==
  /\ Waiting
  /\ Count({"req", "bad", "trunc"}) < MaxOther
  /\ \E f \in TruncatedFrames : PeerWrite("trunc", f.declared, f.body)

PeerClose ==
  /\ Waiting
  /\ closed' = TRUE
  /\ UNCHANGED <<toodles, next_toodle_id, db, input, output, pc, pos, sent, issued,
                 removed, reads, handed, last, writeFails, eofSpins>>
  /\ UNCHANGED adapterVars

\* ------------------------------------------------------------------- bridge
\* Response::write_to: the frame is written, or the write fails.
write_to(out, response, ok) == IF ok THEN Append(out, ResponseFrame(response)) ELSE out

AfterWriteStop(ok) == IF ok THEN "loop" ELSE "stopped"
(* .unwrap_or_else(|err| eprintln!(..)): a failed write is printed to the    *)
(* error stream (counted by writeFails) and the loop body ends as after a    *)
(* good write.                                                               *)
AfterWrite(ok) == "loop"

\* The stream has ended and holds no further length prefix.
AtEof == closed /\ Len(input) < 4

(* One turn of the loop in main for a request that has an arm: read_from,    *)
(* the arm, write_to; a failed write is reported on stderr and the loop goes *)
(* on.  r is what read_from returned, o the arm's outcome.                   *)
Turn(r, o, ok) ==
  /\ toodles' = o.toodles
  /\ next_toodle_id' = o.next_toodle_id
  /\ db' = o.db
  /\ input' = SubSeq(input, r.used + 1, Len(input))
  /\ pos' = pos + r.used
  /\ output' = write_to(output, o.response, ok)
  /\ writeFails' = IF ok THEN writeFails ELSE writeFails + 1
  /\ reads' = reads + 1
  /\ handed' = handed + 1
  /\ issued' = IF o.response.type = "NewToodle"
                 THEN Append(issued, o.response.toodle_id) ELSE issued
  /\ removed' = CASE o.response.type = "DestroyToodle" /\ o.response.destroyed ->
                       removed \cup {r.req.toodle_id}
                  [] o.response.type = "NewToodle" -> removed \ {o.response.toodle_id}
                  [] OTHER -> removed
  /\ last' = [start |-> pos, end |-> pos + r.used, st |-> r.st, req |-> r.req,
              response |-> o.response, matched |-> TRUE, toodles |-> toodles,
              next |-> next_toodle_id, db |-> db, removed |-> removed, eof |-> AtEof,
              wrote |-> ok]
  /\ eofSpins' = IF AtEof THEN eofSpins + 1 ELSE eofSpins
  /\ pc' = AfterWrite(ok)
  /\ UNCHANGED <<closed, sent>>
  /\ UNCHANGED adapterVars

WriteOutcomes == {ok \in BOOLEAN : ok \/ writeFails < MaxWriteFail}

Serve(tag) ==
  /\ pc = "loop"
  /\ LET r == read_from(input, closed) IN
       /\ r.st = "ok"
       /\ r.req.type = tag
       /\ \E ok \in WriteOutcomes :
            Turn(r, Dispatch(r.req, toodles, next_toodle_id, db), ok)

ServeNewToodle == Serve("NewToodle")
ServeDestroyToodle == Serve("DestroyToodle")
ServeCreateLabel == Serve("CreateLabel")
ServeAddLabel == Serve("AddLabel")

(* Err(err) => Response::Error(err): read_from failed, the response is       *)
(* Err(BadRequest).  main's loop has no exit, so this is also every turn     *)
(* taken once the stream has ended.                                          *)
ServeBadRequest ==
  /\ pc = "loop"
  /\ AtEof => eofSpins < MaxEofSpin
  /\ LET r == read_from(input, closed) IN
       /\ r.st = "err"
       /\ \E ok \in WriteOutcomes :
            Turn(r, Outcome(RespErr("BadRequest"), toodles, next_toodle_id, db), ok)

(* A decoded request of a variant `match request` has no arm for: no         *)
(* Response is made and nothing is written.  What the program does next is   *)
(* not defined by the source; it either goes on to the next read or stops.   *)
ServeUnmatched ==
  /\ pc = "loop"
  /\ LET r == read_from(input, closed)
         o == Dispatch(r.req, toodles, next_toodle_id, db) IN
       /\ r.st = "ok"
       /\ ~o.matched
       /\ input' = SubSeq(input, r.used + 1, Len(input))
       /\ pos' = pos + r.used
       /\ reads' = reads + 1
       /\ last' = [start |-> pos, end |-> pos + r.used, st |-> r.st, req |-> r.req,
                   response |-> NoResponse, matched |-> FALSE, toodles |-> toodles,
                   next |-> next_toodle_id, db |-> db, removed |-> removed,
                   eof |-> FALSE, wrote |-> FALSE]
       /\ \E goes_on \in BOOLEAN : pc' = IF goes_on THEN "loop" ELSE "nomatch"
       /\ UNCHANGED <<toodles, next_toodle_id, db, closed, output, sent, issued, removed,
                      handed, writeFails, eofSpins>>
       /\ UNCHANGED adapterVars

Next ==
  \/ PeerSendNewToodle
  \/ PeerSendRequest
  \/ PeerSendMalformed
  \/ PeerSendTruncated
  \/ PeerClose
  \/ ServeNewToodle
  \/ ServeDestroyToodle
  \/ ServeCreateLabel
  \/ ServeAddLabel
  \/ ServeBadRequest
  \/ ServeUnmatched

Spec == Init /\ [][Next]_vars

(* The NewToodle arm when the store behind Toodle::new(uri) cannot be        *)
(* opened.  Toodle::new returns a Toodle, not a Result, so the failure can   *)
(* leave it only as a panic; main does not catch it and the process ends     *)
(* inside the arm, before the insert and before any response is made.        *)
ServeNewToodleOpenFails ==
  /\ pc = "loop"
  /\ LET r == read_from(input, closed) IN
       /\ r.st = "ok"
       /\ r.req.type = "NewToodle"
       /\ input' = SubSeq(input, r.used + 1, Len(input))
       /\ pos' = pos + r.used
       /\ reads' = reads + 1
       /\ last' = [start |-> pos, end |-> pos + r.used, st |-> r.st, req |-> r.req,
                   response |-> NoResponse, matched |-> TRUE, toodles |-> toodles,
                   next |-> next_toodle_id, db |-> db, removed |-> removed,
                   eof |-> FALSE, wrote |-> FALSE]
       /\ pc' = "panic"
       /\ UNCHANGED <<toodles, next_toodle_id, db, closed, output, sent, issued, removed,
                      handed, writeFails, eofSpins>>
       /\ UNCHANGED adapterVars

NextOpenFails == Next \/ ServeNewToodleOpenFails

\* The bridge over stores that may fail to open.
SpecOpenFails == Init /\ [][NextOpenFails]_vars

\* --------------------------------------------------------- boundary adapter
\* Arc::clone and the drop of an Arc, for the store and for a sub-manager.
StoreClone(h, s) == [h EXCEPT !.stores[s].strong = @ + 1]
StoreDrop(h, s) ==
  LET n == h.stores[s].strong - 1 IN
  [h EXCEPT !.stores[s].strong = n, !.stores[s].freed = IF n = 0 THEN @ + 1 ELSE @]
ManagerClone(h, m) == [h EXCEPT !.managers[m].strong = @ + 1]
\* A sub-manager that is freed lets go of the store it was built over.
ManagerDrop(h, m) ==
  LET n == h.managers[m].strong - 1
      h1 == [h EXCEPT !.managers[m].strong = n,
                      !.managers[m].freed = IF n = 0 THEN @ + 1 ELSE @]
  IN  IF n = 0 THEN StoreDrop(h1, h.managers[m].store) ELSE h1

StoreObject(uri) == [uri |-> uri, strong |-> 1, freed |-> 0, categories |-> {}]
ManagerObject(kind, s) == [kind |-> kind, store |-> s, strong |-> 1, freed |-> 0]
Made(h, toodle) == [heap |-> h, toodle |-> toodle]

\* Toodle::new handing its one reference to all three holders without cloning.
ToodleNewUncounted(h, uri) ==
  LET s == Len(h.stores) + 1
      l == Len(h.managers) + 1
  IN  Made([h EXCEPT !.stores = Append(@, StoreObject(uri)),
                     !.managers = @ \o <<ManagerObject("logins", s), ManagerObject("list", s)>>],
           [store |-> s, logins |-> l, list |-> l + 1])

\* Toodle::new opening a second store for the list manager.
ToodleNewTwoStores(h, uri) ==
  LET s == Len(h.stores) + 1
      l == Len(h.managers) + 1
      h1 == [h EXCEPT !.stores = @ \o <<StoreObject(uri), StoreObject(uri)>>,
                      !.managers = @ \o <<ManagerObject("logins", s),
                                          ManagerObject("list", s + 1)>>]
  IN  Made(StoreClone(h1, s), [store |-> s, logins |-> l, list |-> l + 1])

(* Toodle::new(uri): one Arc::new(Store::new(uri)); the Toodle's own field    *)
(* and the two sub-managers each get a clone of it; the local goes out of    *)
(* scope at the end.                                                         *)
Toodle_new(h, uri) ==
  LET s == Len(h.stores) + 1
      l == Len(h.managers) + 1
      h1 == [h EXCEPT !.stores = Append(@, StoreObject(uri))]
      h2 == StoreClone(h1, s)
      h3 == [StoreClone(h2, s) EXCEPT !.managers = Append(@, ManagerObject("logins", s))]
      h4 == [StoreClone(h3, s) EXCEPT !.managers = Append(@, ManagerObject("list", s))]
  IN  Made(StoreDrop(h4, s), [store |-> s, logins |-> l, list |-> l + 1])

\* The fields of a Toodle, in the order they are declared and dropped.
ToodleFields == <<"store", "logins", "list">>

\* Box::into_raw(Box::new(toodle)): the token is the address of the box.
BoxToodle(r, surface) ==
  [heap |-> [r.heap EXCEPT !.sessions =
               Append(@, [store |-> r.toodle.store, logins |-> r.toodle.logins,
                          list |-> r.toodle.list, state |-> "live",
                          held |-> {"store", "logins", "list"}, surface |-> surface,
                          destroyed |-> FALSE])],
   result |-> Len(r.heap.sessions) + 1]

new_toodle(h, uri) == BoxToodle(Toodle_new(h, uri), "c")
Java_newToodle(h, db_path) == BoxToodle(Toodle_new(h, db_path), "java")

\* let _ = Box::from_raw(toodle): the box is owned again and its drop begins.
toodle_destroy(h, toodle) == [h EXCEPT !.sessions[toodle].state = "dropping"]
\* let _ = &*toodle: a reference is made and forgotten.
Java_toodleDestroy(h, toodle) == h

(* The drop of a Box<Toodle>, one field at a time; with the last field the   *)
(* box's allocation is returned.                                             *)
DropNext(h, toodle) ==
  LET t == h.sessions[toodle]
      i == CHOOSE j \in 1..3 : ToodleFields[j] \in t.held
                               /\ \A k \in 1..(j - 1) : ToodleFields[k] \notin t.held
      f == ToodleFields[i]
      h1 == CASE f = "store" -> StoreDrop(h, t.store)
               [] f = "logins" -> ManagerDrop(h, t.logins)
               [] OTHER -> ManagerDrop(h, t.list)
  IN  [h1 EXCEPT !.sessions[toodle].held = @ \ {f},
                 !.sessions[toodle].state = IF t.held = {f} THEN "freed" ELSE @]

BoxHandle(h, m, toodle) ==
  [heap |-> [h EXCEPT !.handles = Append(@, [manager |-> m, from |-> toodle,
                                            state |-> "held"])],
   result |-> Len(h.handles) + 1]

\* toodle_logins boxing the Toodle's own reference instead of a clone of it.
ToodleLoginsBorrow(h, toodle) == BoxHandle(h, h.sessions[toodle].logins, toodle)

\* Box::into_raw(Box::new(toodle.logins.clone()))
toodle_logins(h, toodle) ==
  BoxHandle(ManagerClone(h, h.sessions[toodle].logins), h.sessions[toodle].logins, toodle)
\* Box::into_raw(Box::new(toodle.list.clone()))
toodle_list(h, toodle) ==
  BoxHandle(ManagerClone(h, h.sessions[toodle].list), h.sessions[toodle].list, toodle)
Java_loginManager(h, toodle) ==
  BoxHandle(ManagerClone(h, h.sessions[toodle].logins), h.sessions[toodle].logins, toodle)
\* toodle.list.create_category(String::from("test"))
Java_newCategory(h, toodle) ==
  [h EXCEPT !.stores[h.sessions[toodle].store].categories = @ \cup {"test"}]

\* The caller gives a sub-manager handle back: the Box<Arc<..>> is dropped.
release_handle(h, handle) ==
  [ManagerDrop(h, h.handles[handle].manager) EXCEPT !.handles[handle].state = "released"]

\* The tokens a caller of one surface holds and has not given to destroy.
Tokens(surface) ==
  {t \in 1..Len(heap.sessions) :
     heap.sessions[t].surface = surface /\ ~heap.sessions[t].destroyed}
\* What a caller may pass where a session token is expected: also null (0).
Passable(surface) == Tokens(surface) \cup {0}

(* `&*toodle` with a null token is undefined behaviour: the process is       *)
(* stopped by the fault, or the call goes on over whatever is at address 0   *)
(* and returns something meaningless.                                        *)
NullOutcomes == {"crash", "garbage"}
DerefNull(op) ==
  \E out \in NullOutcomes :
    /\ call' = Call(op, 0, out, 0)
    /\ apc' = IF out = "crash" THEN "crashed" ELSE apc
    /\ UNCHANGED heap

Returns(op, token, r) ==
  /\ heap' = r.heap
  /\ call' = Call(op, token, "ok", r.result)
  /\ UNCHANGED apc

\* The caller hands the token to a destroy function and never uses it again.
GivenUp(h, token) == [h EXCEPT !.sessions[token].destroyed = TRUE]

CallNewToodle ==
  /\ apc = "run"
  /\ Len(heap.sessions) < MaxSessions
  /\ \E uri \in Uris : Returns("new_toodle", 0, new_toodle(heap, uri))
  /\ UNCHANGED bridgeVars

CallToodleDestroy ==
  /\ apc = "run"
  /\ \E t \in Tokens("c") :
       Returns("toodle_destroy", t, [heap |-> GivenUp(toodle_destroy(heap, t), t),
                                     result |-> 0])
  /\ UNCHANGED bridgeVars

\* The destroyed Toodle's fields are dropped while other threads go on.
DropField ==
  /\ apc = "run"
  /\ \E t \in 1..Len(heap.sessions) :
       /\ heap.sessions[t].state = "dropping"
       /\ heap' = DropNext(heap, t)
  /\ UNCHANGED <<call, apc>>
  /\ UNCHANGED bridgeVars

CallToodleLogins ==
  /\ apc = "run"
  /\ Len(heap.handles) < MaxHandles
  /\ \E t \in Passable("c") :
       IF t = 0 THEN DerefNull("toodle_logins")
                ELSE Returns("toodle_logins", t, toodle_logins(heap, t))
  /\ UNCHANGED bridgeVars

CallToodleList ==
  /\ apc = "run"
  /\ Len(heap.handles) < MaxHandles
  /\ \E t \in Passable("c") :
       IF t = 0 THEN DerefNull("toodle_list")
                ELSE Returns("toodle_list", t, toodle_list(heap, t))
  /\ UNCHANGED bridgeVars

CallJavaNewToodle ==
  /\ apc = "run"
  /\ Len(heap.sessions) < MaxSessions
  /\ \E uri \in Uris : Returns("newToodle", 0, Java_newToodle(heap, uri))
  /\ UNCHANGED bridgeVars

CallJavaToodleDestroy ==
  /\ apc = "run"
  /\ \E t \in Tokens("java") :
       Returns("toodleDestroy", t, [heap |-> GivenUp(Java_toodleDestroy(heap, t), t),
                                    result |-> 0])
  /\ UNCHANGED bridgeVars

CallJavaLoginManager ==
  /\ apc = "run"
  /\ Len(heap.handles) < MaxHandles
  /\ \E t \in Passable("java") :
       IF t = 0 THEN DerefNull("loginManager")
                ELSE Returns("loginManager", t, Java_loginManager(heap, t))
  /\ UNCHANGED bridgeVars

CallJavaNewCategory ==
  /\ apc = "run"
  /\ \E t \in Passable("java") :
       IF t = 0 THEN DerefNull("newCategory")
                ELSE Returns("newCategory", t, [heap |-> Java_newCategory(heap, t),
                                                result |-> 0])
  /\ UNCHANGED bridgeVars

\* The caller gives back a handle it holds.
CallReleaseHandle ==
  /\ apc = "run"
  /\ \E hd \in 1..Len(heap.handles) :
       /\ heap.handles[hd].state = "held"
       /\ Returns("release", hd, [heap |-> release_handle(heap, hd), result |-> 0])
  /\ UNCHANGED bridgeVars

AdapterNext ==
  \/ CallNewToodle
  \/ CallToodleDestroy
  \/ DropField
  \/ CallToodleLogins
  \/ CallToodleList
  \/ CallJavaNewToodle
  \/ CallJavaToodleDestroy
  \/ CallJavaLoginManager
  \/ CallJavaNewCategory
  \/ CallReleaseHandle

\* The boundary adapter under callers of both surfaces.
AdapterSpec == Init /\ [][AdapterNext]_vars

\* =================================================================== claims
Served(tag) == last.st = "ok" /\ last.matched /\ last.req.type = tag
ServedWithId == Served("DestroyToodle") \/ Served("CreateLabel") \/ Served("AddLabel")

\* The requests that carry toodle_id id.
IdRequests(id) ==
  {Request("DestroyToodle", WithFields({"toodle_id"}, id, "", "", NoLabel))}
  \cup {Request("CreateLabel", WithFields({"toodle_id", "name", "color"}, id, "", "", l)) :
          l \in LabelSet}
  \cup {Request("AddLabel", WithFields({"toodle_id", "item_uuid", "label"}, id, "", x[1], x[2])) :
          x \in ReqUuids \X LabelSet}

NoDuplicates(ls) == \A i, j \in 1..Len(ls) : ls[i] = ls[j] => i = j
Copies(ls, l) == Cardinality({i \in 1..Len(ls) : ls[i] = l})

\* C1: the toodle_ids returned by successive NewToodle requests are 1, 2, 3, ...
\* in order (the first is 1, each greater than all before it, none returned
\* twice), also when DestroyToodle removed sessions in between.
C1_IdsInOrderNeverReused == \A i \in 1..Len(issued) : issued[i] = i

\* A NewToodle answered after a session had been destroyed.
C1_Witness ==
  /\ Served("NewToodle")
  /\ last.removed # {}
  /\ Len(issued) >= 2
  /\ last.response = RespNewToodle(Len(issued))

\* A request with a toodle_id that is no key of the table when it is dispatched.
AbsentId == ServedWithId /\ last.req.toodle_id \notin DOMAIN last.toodles

\* C2 as stated: DestroyToodle, CreateLabel and AddLabel with a toodle_id that
\* is not a key of the session table are all answered Err(BadToodle), and the
\* bridge goes on serving.
C2_AbsentIdIsBadToodle ==
  AbsentId => last.response = RespErr("BadToodle") /\ pc = "loop"

\* C2 amended: CreateLabel and AddLabel with a toodle_id that is not a key of
\* the session table are answered Err(BadToodle), DestroyToodle with such an id
\* is answered DestroyToodle{destroyed: false}, and the bridge goes on serving.
C2_AbsentIdAnswered ==
  AbsentId =>
    /\ pc = "loop"
    /\ last.response = IF last.req.type = "DestroyToodle"
                         THEN RespDestroyToodle(FALSE) ELSE RespErr("BadToodle")

\* A CreateLabel for an id the table does not hold, answered, the loop running.
C2_Witness ==
  /\ AbsentId
  /\ last.req.type = "CreateLabel"
  /\ last.response = RespErr("BadToodle")
  /\ pc = "loop"

\* C3: DestroyToodle{X} answers destroyed: d with d true exactly when X was a key
\* of the table just before; afterwards X is not in the table; a second
\* DestroyToodle{X}, no NewToodle having returned X since, answers false.
C3_DestroyReportsPresence ==
  Served("DestroyToodle") =>
    /\ last.response = RespDestroyToodle(last.req.toodle_id \in DOMAIN last.toodles)
    /\ last.req.toodle_id \notin DOMAIN toodles
    /\ last.req.toodle_id \in last.removed => ~last.response.destroyed

\* The second DestroyToodle of an id.
C3_Witness ==
  /\ Served("DestroyToodle")
  /\ last.req.toodle_id \in last.removed
  /\ last.response = RespDestroyToodle(FALSE)

\* C4: a request that references an id DestroyToodle has removed gets the
\* response, and leaves the state, that the same request gets with an id no
\* NewToodle ever returned; for CreateLabel and AddLabel it is Err(BadToodle).
\* First for every request that could come next, then for the one just served.
C4_RemovedLikeNeverCreated ==
  /\ \A X \in removed : \A Y \in {next_toodle_id, next_toodle_id + 1} :
       \A q \in IdRequests(X) :
         LET ox == Dispatch(q, toodles, next_toodle_id, db)
             oy == Dispatch([q EXCEPT !.toodle_id = Y], toodles, next_toodle_id, db)
         IN  /\ ox = oy
             /\ q.type # "DestroyToodle" => ox.response = RespErr("BadToodle")
  /\ (ServedWithId /\ last.req.toodle_id \in last.removed) =>
       LET oy == Dispatch([last.req EXCEPT !.toodle_id = last.next],
                          last.toodles, last.next, last.db)
       IN  /\ last.response = oy.response
           /\ toodles = oy.toodles
           /\ next_toodle_id = oy.next_toodle_id
           /\ db = oy.db

\* An AddLabel served for an id that had been destroyed.
C4_Witness ==
  /\ Served("AddLabel")
  /\ last.req.toodle_id \in last.removed
  /\ last.response = RespErr("BadToodle")

\* An AddLabel for a live session and an item its store holds.
AddLabelOnItem ==
  /\ Served("AddLabel")
  /\ last.req.toodle_id \in DOMAIN last.toodles
  /\ last.req.item_uuid \in DOMAIN last.db[last.toodles[last.req.toodle_id].uri].items

\* C5: AddLabel for a live session and an existing item answers AddLabel, also
\* when the item already holds the label, and the item then holds exactly one
\* copy of it; no item's label sequence ever holds two equal labels.
C5_AddLabelIdempotent ==
  /\ \A u \in Uris : \A x \in DOMAIN db[u].items : NoDuplicates(db[u].items[x])
  /\ AddLabelOnItem =>
       /\ last.response = RespAddLabel
       /\ Copies(db[last.toodles[last.req.toodle_id].uri].items[last.req.item_uuid],
                 last.req.label) = 1

\* An AddLabel of a label the item already held, after an earlier AddLabel.
C5_Witness ==
  /\ AddLabelOnItem
  /\ Contains(last.db[last.toodles[last.req.toodle_id].uri].items[last.req.item_uuid],
              last.req.label)
  /\ Cardinality({i \in 1..Len(output) : output[i] = ResponseFrame(RespAddLabel)}) >= 2

\* An AddLabel for a live session whose store has no item with the uuid.
AddLabelNoItem ==
  /\ Served("AddLabel")
  /\ last.req.toodle_id \in DOMAIN last.toodles
  /\ last.req.item_uuid \notin DOMAIN last.db[last.toodles[last.req.toodle_id].uri].items

\* C6: AddLabel addressed to a live session whose store has no item with that
\* uuid answers Err(BadItem) and leaves the session table, the id counter and
\* every store's items and labels as they were.
C6_BadItemChangesNothing ==
  AddLabelNoItem =>
    /\ last.response = RespErr("BadItem")
    /\ toodles = last.toodles
    /\ next_toodle_id = last.next
    /\ db = last.db

\* Such an AddLabel answered, with a store that holds labels to lose.
C6_Witness ==
  /\ AddLabelNoItem
  /\ last.response = RespErr("BadItem")
  /\ \E u \in Uris : \E x \in DOMAIN db[u].items : db[u].items[x] # <<>>

\* C7: every frame that decodes to one of the ten Request variants gets exactly
\* one Response, handed to the output before the next frame is read: no decoded
\* request is left without a response.
C7_OneResponsePerRequest ==
  /\ handed = reads
  /\ last.st = "ok" => last.response # NoResponse

\* Frame i of the peer is well formed; the bytes the peer wrote for frame i.
WellFormed(i) == sent[i].kind \in {"new", "req"}
FrameFirst(i) == sent[i].start
FrameAfter(i) == sent[i].start + 4 + sent[i].supplied
\* The latest turn began at the first byte of frame i; it read bytes of frame i.
BeganAt(i) == last.st # "none" /\ last.start = FrameFirst(i)
ReadOf(i) == last.st # "none" /\ last.end > FrameFirst(i) /\ last.start < FrameAfter(i)

\* C8: a complete frame whose body does not decode is answered Err(BadRequest)
\* and leaves the input 4 + declared-length bytes past its first byte, so that
\* a well-formed frame after it is decoded as itself.
C8_BadFrameSkippedWhole ==
  /\ \A i \in 1..Len(sent) :
       (sent[i].kind = "bad" /\ BeganAt(i)) =>
         /\ last.response = RespErr("BadRequest")
         /\ last.end = FrameFirst(i) + 4 + sent[i].declared
  /\ \A i \in 2..Len(sent) :
       (sent[i - 1].kind = "bad" /\ WellFormed(i) /\ ReadOf(i)) =>
         /\ last.start = FrameFirst(i)
         /\ last.st = "ok"

\* C9: a frame whose prefix declares more bytes than the stream supplies before
\* the next frame is a read failure, no byte of the next frame is read as its
\* body, and the next frame is parsed from its own prefix.
C9_TruncatedFrameIsolated ==
  \A i \in 1..(Len(sent) - 1) :
    (sent[i].kind = "trunc" /\ WellFormed(i + 1)) =>
      /\ BeganAt(i) => last.st = "err" /\ last.end <= FrameFirst(i + 1)
      /\ ReadOf(i + 1) => last.start = FrameFirst(i + 1) /\ last.st = "ok"

\* C10: once the stream has ended and no length prefix can be read, the loop
\* stops: the turn that finds the end hands no response to the output and is
\* the last.
C10_LoopEndsAtEof == last.eof => last.response = NoResponse /\ pc # "loop"

\* C11: a Response written by write_to and read back by the same framing rules
\* (4-byte length, then an object tagged by `type` with the data model's
\* member names, a Label being {name, color}) is the Response that was written.
C11_ResponseRoundTrip ==
  (last.st # "none" /\ last.matched /\ last.wrote) =>
    DecodeResponse(output[Len(output)]) = [ok |-> TRUE, response |-> last.response]

\* C16: when writing a response fails, the failure is reported on the error
\* stream and the bridge stays in its loop; the table, the counter and the
\* store keep what the request did (a NewToodle whose write failed has its
\* session in the table under the id it consumed).
C16_WriteFailureKeepsGoing ==
  (last.st # "none" /\ last.matched /\ ~last.wrote) =>
    /\ pc = "loop"
    /\ writeFails >= 1
    /\ LET o == IF last.st = "ok"
                  THEN Dispatch(last.req, last.toodles, last.next, last.db)
                  ELSE Outcome(RespErr("BadRequest"), last.toodles, last.next, last.db)
       IN  /\ toodles = o.toodles
           /\ next_toodle_id = o.next_toodle_id
           /\ db = o.db
    /\ last.response.type = "NewToodle" =>
         /\ last.response.toodle_id \in DOMAIN toodles
         /\ next_toodle_id = last.response.toodle_id + 1
C16_Witness ==
  /\ last.st = "ok" /\ last.matched /\ ~last.wrote
  /\ last.response.type = "NewToodle"
  /\ last.response.toodle_id \in DOMAIN toodles
  /\ Len(input) > 0

\* The turn just taken was a NewToodle whose store could not be opened.
OpenFailed == pc = "panic"

\* C17: when the store open fails for a NewToodle, the requester is handed an
\* error response, no entry is inserted and no NewToodle success response is
\* sent.
C17_OpenFailureIsErrResponse ==
  OpenFailed =>
    /\ last.response.type = "Err"
    /\ handed = reads
    /\ toodles = last.toodles
    /\ next_toodle_id = last.next

\* C19: a step changes the id counter only if it dispatches a NewToodle, and
\* then by exactly one; it changes the table only if it dispatches a NewToodle
\* (adding exactly the new id) or a DestroyToodle (removing at most the named
\* id, every other entry kept); a turn answered CreateLabel, AddLabel or Err
\* changes neither.
C19_Step ==
  LET turn == reads' # reads
      resp == last'.response
      id == last'.req.toodle_id
  IN
  /\ next_toodle_id' # next_toodle_id =>
       turn /\ resp.type = "NewToodle" /\ next_toodle_id' = next_toodle_id + 1
  /\ toodles' # toodles =>
       /\ turn
       /\ \/ /\ resp.type = "NewToodle"
             /\ DOMAIN toodles' = DOMAIN toodles \cup {next_toodle_id}
             /\ \A i \in DOMAIN toodles \ {next_toodle_id} : toodles'[i] = toodles[i]
          \/ /\ resp.type = "DestroyToodle"
             /\ DOMAIN toodles' = DOMAIN toodles \ {id}
             /\ \A i \in DOMAIN toodles' : toodles'[i] = toodles[i]
  /\ (turn /\ resp.type = "NewToodle") =>
       /\ next_toodle_id' = next_toodle_id + 1
       /\ DOMAIN toodles' = DOMAIN toodles \cup {next_toodle_id}
  /\ (turn /\ resp.type \in {"CreateLabel", "AddLabel", "Err"}) =>
       /\ next_toodle_id' = next_toodle_id
       /\ toodles' = toodles
C19_FrameConditions == [][C19_Step]_vars
C19_Witness ==
  /\ last.response.type = "DestroyToodle" /\ last.response.destroyed
  /\ DOMAIN toodles # {}
  /\ DOMAIN last.toodles = DOMAIN toodles \cup {last.req.toodle_id}
  /\ next_toodle_id = last.next

\* C20: every key of the table lies in 1..next_toodle_id - 1, next_toodle_id is
\* one more than the number of NewToodle requests dispatched so far, and the
\* id about to be issued is not a key of the table.
C20_KeysBelowCounter ==
  /\ \A id \in DOMAIN toodles : id \in 1..(next_toodle_id - 1)
  /\ next_toodle_id = 1 + Len(issued)
  /\ next_toodle_id \notin DOMAIN toodles
C20_Witness ==
  /\ next_toodle_id = 3
  /\ DOMAIN toodles = {2}

AllSessions == 1..Len(heap.sessions)
AllHandles == 1..Len(heap.handles)
HeldHandles == {hd \in AllHandles : heap.handles[hd].state = "held"}

\* C12: on either surface, a session token handed to destroy has its Session
\* allocation reclaimed, so both surfaces leave the same sessions live.
C12_DestroyReclaimsOnBothSurfaces ==
  \A t \in AllSessions : heap.sessions[t].destroyed => heap.sessions[t].state # "live"

\* The holders of sub-manager m: Toodles that have not dropped it, and handles.
ManagerHolders(m) ==
  Cardinality({t \in AllSessions :
                 \/ heap.sessions[t].logins = m /\ "logins" \in heap.sessions[t].held
                 \/ heap.sessions[t].list = m /\ "list" \in heap.sessions[t].held})
  + Cardinality({hd \in HeldHandles : heap.handles[hd].manager = m})

\* C13: every handle from toodle_logins / toodle_list is its own handle onto
\* the Session's one sub-manager; a held handle's sub-manager (and its store)
\* is live whatever happened to the other handles and to the parent Session, a
\* Session not yet destroyed has both sub-managers live whatever handles were
\* released, and a sub-manager is freed only when no holder remains.
C13_HandlesShareSubManager ==
  /\ \A hd \in HeldHandles :
       LET m == heap.managers[heap.handles[hd].manager] IN
         m.freed = 0 /\ m.strong >= 1 /\ heap.stores[m.store].freed = 0
  /\ \A hd \in AllHandles :
       LET t == heap.sessions[heap.handles[hd].from] IN
         heap.handles[hd].manager \in {t.logins, t.list}
  /\ \A t \in AllSessions :
       ~heap.sessions[t].destroyed =>
         /\ heap.managers[heap.sessions[t].logins].freed = 0
         /\ heap.managers[heap.sessions[t].list].freed = 0
         /\ heap.stores[heap.sessions[t].store].freed = 0
  /\ \A m \in 1..Len(heap.managers) :
       /\ heap.managers[m].strong = ManagerHolders(m)
       /\ heap.managers[m].freed = (IF ManagerHolders(m) = 0 THEN 1 ELSE 0)
C13_Witness ==
  \E h1 \in HeldHandles, h2 \in AllHandles :
    /\ heap.handles[h2].state = "released"
    /\ heap.handles[h1].manager = heap.handles[h2].manager
    /\ heap.sessions[heap.handles[h1].from].state = "freed"
    /\ heap.managers[heap.handles[h1].manager].freed = 0

\* The holders of store s: Toodles that have not dropped their field, and
\* sub-managers not yet freed.
StoreHolders(s) ==
  Cardinality({t \in AllSessions :
                 heap.sessions[t].store = s /\ "store" \in heap.sessions[t].held})
  + Cardinality({m \in 1..Len(heap.managers) :
                   heap.managers[m].store = s /\ heap.managers[m].freed = 0})

\* C14: under every interleaving of releases, a Store Handle is freed at most
\* once, and it is freed exactly when none of its holders (the Session, the
\* Login and List sub-managers kept alive by their own holders) remains.
C14_StoreFreedOnceAtLastRelease ==
  \A s \in 1..Len(heap.stores) :
    /\ heap.stores[s].freed \in {0, 1}
    /\ heap.stores[s].freed = 1 <=> StoreHolders(s) = 0
    /\ heap.stores[s].strong = StoreHolders(s)
C14_Witness ==
  \E s \in 1..Len(heap.stores), hd \in AllHandles :
    /\ heap.stores[s].freed = 1
    /\ heap.handles[hd].state = "released"
    /\ heap.managers[heap.handles[hd].manager].store = s
    /\ call.op = "release"

\* The adapter operations that dereference the session token they are given.
DerefOps == {"toodle_logins", "toodle_list", "loginManager", "newCategory"}

\* C15: an operation that dereferences its session token answers a null token
\* with a detectable error, without dereferencing it.
C15_NullTokenFailsFast ==
  (call.op \in DerefOps /\ call.token = 0) => call.outcome = "error"

\* C18: the Login and List sub-managers of a Session are built over the very
\* Store Handle the Session itself refers to, and no two Sessions refer to the
\* same Store Handle.
C18_OneStorePerSession ==
  \A t \in AllSessions :
    /\ heap.managers[heap.sessions[t].logins].store = heap.sessions[t].store
    /\ heap.managers[heap.sessions[t].list].store = heap.sessions[t].store
    /\ \A u \in AllSessions \ {t} : heap.sessions[u].store # heap.sessions[t].store
C18_Witness ==
  /\ Len(heap.sessions) = 2
  /\ \A t \in AllSessions : heap.sessions[t].state = "live"
  /\ heap.stores[heap.sessions[1].store].uri = heap.stores[heap.sessions[2].store].uri
  /\ HeldHandles # {}

====
